---- MODULE Spec2Model ----
(***************************************************************************)
(* python-teamcity: the request execution and authentication-resolution    *)
(* layer of teamcity/teamcity.py (class TeamCity).                         *)
(*                                                                         *)
(* Python values are tagged records: None, bool and str.  A str is a       *)
(* sequence of one-character strings, so that slicing, startswith,         *)
(* endswith and f-string concatenation are computed as Python does.        *)
(* A dict is a function from its keys to its values.                       *)
(***************************************************************************)
EXTENDS Integers, Sequences, FiniteSets, TLC

(***************************************************************************)
(* Python values and the operations the code applies to them               *)
(***************************************************************************)
PyNone == [t |-> "None"]
PyStr(s) == [t |-> "str", s |-> s]
PyBool(b) == [t |-> "bool", b |-> b]

\* bool(v): None, False and '' are falsy
Truthy(v) == CASE v.t = "None" -> FALSE
               [] v.t = "bool" -> v.b
               [] v.t = "str" -> v.s /= <<>>

\* a or b
PyOr(a, b) == IF Truthy(a) THEN a ELSE b

\* s.startswith(p), s.endswith(p) on character sequences
StartsWith(s, p) == Len(s) >= Len(p) /\ SubSeq(s, 1, Len(p)) = p
EndsWith(s, p) == Len(s) >= Len(p) /\ SubSeq(s, Len(s) - Len(p) + 1, Len(s)) = p

\* d.update(e): the keys of e are set in d, the other keys of d are kept
DictUpdate(d, e) == [k \in (DOMAIN d) \cup (DOMAIN e) |-> IF k \in DOMAIN e THEN e[k] ELSE d[k]]

EmptyDict == [k \in {} |-> <<>>]
Dict1(k, v) == [x \in {k} |-> v]

(***************************************************************************)
(* String literals of the source                                           *)
(***************************************************************************)
SLASH == <<"/">>
HTTP_SCHEME == <<"h", "t", "t", "p", ":", "/", "/">>
HTTPS_SCHEME == <<"h", "t", "t", "p", "s", ":", "/", "/">>
APP_REST == <<"/", "a", "p", "p", "/", "r", "e", "s", "t">>
HTTPAUTH_APP_REST == <<"/", "h", "t", "t", "p", "A", "u", "t", "h", "/", "a", "p", "p", "/", "r", "e", "s", "t">>
GUESTAUTH_APP_REST == <<"/", "g", "u", "e", "s", "t", "A", "u", "t", "h", "/", "a", "p", "p", "/", "r", "e", "s", "t">>
BEARER == <<"B", "e", "a", "r", "e", "r", " ">>
APPLICATION_JSON == <<"a", "p", "p", "l", "i", "c", "a", "t", "i", "o", "n", "/", "j", "s", "o", "n">>
TEXT_PLAIN == <<"t", "e", "x", "t", "/", "p", "l", "a", "i", "n">>

\* class AuthMethod
AuthMethod == {"TOKENS", "USER", "GUEST", "LOGGED_IN"}

(***************************************************************************)
(* Inputs: constructor arguments, environments, caller headers, transport  *)
(***************************************************************************)
TEXT_XML == <<"t", "e", "x", "t", "/", "x", "m", "l">>
BASIC_ZZZ == <<"B", "a", "s", "i", "c", " ", "z", "z", "z">>
ABC == <<"a", "b", "c">>
ENVTOK == <<"e", "n", "v", "t", "o", "k">>
XCOM == <<"x", ".", "c", "o", "m">>
HTTPX_SLASH == <<"h", "t", "t", "p", ":", "/", "/", "x", "/">>
BUILDS == <<"b", "u", "i", "l", "d", "s">>
FALSE_STR == <<"f", "a", "l", "s", "e">>

EnvNames == {"TEAMCITY_SERVER", "TEAMCITY_TOKENS", "TEAMCITY_USER", "TEAMCITY_PASSWORD", "TEAMCITY_GUEST"}

\* os.environ with none of the variables set (PyNone: the variable is absent)
EmptyEnv == [n \in EnvNames |-> PyNone]

\* os.environ.get(name, default)
EnvGet(e, name, default) == IF e[name] = PyNone THEN default ELSE e[name]

\* environments tried: nothing set; TEAMCITY_GUEST=false; a token; user and
\* password; everything
AuthEnvs ==
    { EmptyEnv,
      [EmptyEnv EXCEPT !["TEAMCITY_GUEST"] = PyStr(FALSE_STR)],
      [EmptyEnv EXCEPT !["TEAMCITY_TOKENS"] = PyStr(ENVTOK)],
      [EmptyEnv EXCEPT !["TEAMCITY_USER"] = PyStr(<<"e">>), !["TEAMCITY_PASSWORD"] = PyStr(<<"q">>)],
      [EmptyEnv EXCEPT !["TEAMCITY_SERVER"] = PyStr(HTTPX_SLASH), !["TEAMCITY_TOKENS"] = PyStr(<<>>),
                       !["TEAMCITY_USER"] = PyStr(<<>>), !["TEAMCITY_PASSWORD"] = PyStr(<<"q">>)] }

\* constructor arguments tried: TeamCity(server, tokens, user, password, guest)
AuthArgs ==
    [ server : {PyNone, PyStr(XCOM)},
      tokens : {PyNone, PyStr(<<>>), PyStr(ABC)},
      user : {PyNone, PyStr(<<>>), PyStr(<<"u">>)},
      password : {PyNone, PyStr(<<>>), PyStr(<<"p">>)},
      guest : {PyBool(FALSE), PyBool(TRUE)} ]

\* the arguments of the request-execution runs: a server and at most one
\* credential mechanism, or no server at all
ExecArgs ==
    { a \in AuthArgs :
        /\ a.tokens /= PyStr(<<>>) /\ a.user /= PyStr(<<>>) /\ a.password /= PyStr(<<>>)
        /\ (a.user = PyNone) = (a.password = PyNone)
        /\ Cardinality({f \in {"tokens", "user", "guest"} : Truthy(a[f])}) <= 1
        /\ (a.server = PyNone => Cardinality({f \in {"tokens", "user", "guest"} : Truthy(a[f])}) = 0) }

\* longest server address tried, not counting its scheme
MaxAddrLen == 3

\* the server addresses tried: every string of 'x', '.' and '/' up to
\* MaxAddrLen characters, bare or after 'http://' or 'https://'
AddrTails == UNION {[1..n -> {"x", ".", "/"}] : n \in 0..MaxAddrLen}
Addresses == {p \o t : p \in {<<>>, HTTP_SCHEME, HTTPS_SCHEME}, t \in AddrTails} \cup {XCOM}

\* the arguments of the address runs: any address, with a token or with no
\* credentials
AddrArgs ==
    [ server : {PyStr(a) : a \in Addresses},
      tokens : {PyNone, PyStr(ABC)},
      user : {PyNone},
      password : {PyNone},
      guest : {PyBool(FALSE)} ]

ExecEnvs == {EmptyEnv}

(***************************************************************************)
(* TeamCity.process_server_address and TeamCity.check_auth_method          *)
(***************************************************************************)
\* process_server_address raises ValueError when `not server`
ServerIsSet(server) == Truthy(server)

\* mutant of process_server_address: the scheme is prefixed without looking
process_server_address_AlwaysPrefix(s) ==
    LET stripped == IF EndsWith(s, SLASH) THEN SubSeq(s, 1, Len(s) - 1) ELSE s
    IN  HTTPS_SCHEME \o stripped

\* the address returned for a str `s` (line 77 then line 78)
process_server_address(s) ==
    LET stripped == IF EndsWith(s, SLASH) THEN SubSeq(s, 1, Len(s) - 1) ELSE s
    IN  IF StartsWith(stripped, HTTP_SCHEME) \/ StartsWith(stripped, HTTPS_SCHEME)
        THEN stripped
        ELSE HTTPS_SCHEME \o stripped

\* mutant of check_auth_method: user and password are looked at before the token
check_auth_method_UserFirst(srv, tok, usr, pwd, gst) ==
    LET hdr == Dict1("Accept", APPLICATION_JSON)
    IN  IF Truthy(usr) /\ Truthy(pwd)
        THEN [authentication_method |-> "USER",
              base_url |-> srv \o HTTPAUTH_APP_REST,
              header |-> hdr]
        ELSE IF Truthy(tok)
        THEN [authentication_method |-> "TOKENS",
              base_url |-> srv \o APP_REST,
              header |-> DictUpdate(hdr, Dict1("Authorization", BEARER \o tok.s))]
        ELSE IF Truthy(gst)
        THEN [authentication_method |-> "GUEST",
              base_url |-> srv \o GUESTAUTH_APP_REST,
              header |-> hdr]
        ELSE [authentication_method |-> "LOGGED_IN",
              base_url |-> srv \o APP_REST,
              header |-> hdr]

\* mutant of check_auth_method: the guest branch keeps the plain base URL
check_auth_method_GuestUrl(srv, tok, usr, pwd, gst) ==
    LET hdr == Dict1("Accept", APPLICATION_JSON)
    IN  IF Truthy(tok)
        THEN [authentication_method |-> "TOKENS",
              base_url |-> srv \o APP_REST,
              header |-> DictUpdate(hdr, Dict1("Authorization", BEARER \o tok.s))]
        ELSE IF Truthy(usr) /\ Truthy(pwd)
        THEN [authentication_method |-> "USER",
              base_url |-> srv \o HTTPAUTH_APP_REST,
              header |-> hdr]
        ELSE IF Truthy(gst)
        THEN [authentication_method |-> "GUEST",
              base_url |-> srv \o APP_REST,
              header |-> hdr]
        ELSE [authentication_method |-> "LOGGED_IN",
              base_url |-> srv \o APP_REST,
              header |-> hdr]

\* (authentication_method, base_url, header) from the fields of self
check_auth_method(srv, tok, usr, pwd, gst) ==
    LET hdr == Dict1("Accept", APPLICATION_JSON)
    IN  IF Truthy(tok)
        THEN [authentication_method |-> "TOKENS",
              base_url |-> srv \o APP_REST,
              header |-> DictUpdate(hdr, Dict1("Authorization", BEARER \o tok.s))]
        ELSE IF Truthy(usr) /\ Truthy(pwd)
        THEN [authentication_method |-> "USER",
              base_url |-> srv \o HTTPAUTH_APP_REST,
              header |-> hdr]
        ELSE IF Truthy(gst)
        THEN [authentication_method |-> "GUEST",
              base_url |-> srv \o GUESTAUTH_APP_REST,
              header |-> hdr]
        ELSE [authentication_method |-> "LOGGED_IN",
              base_url |-> srv \o APP_REST,
              header |-> hdr]

(***************************************************************************)
(* More values: int, dict, the response of the transport, JSON             *)
(***************************************************************************)
PyInt(i) == [t |-> "int", i |-> i]
PyDict(d) == [t |-> "dict", d |-> d]
PyList(l) == [t |-> "list", l |-> l]
NA == PyStr(<<"N", "A">>)

\* a requests.Response: its status_code and the text of its body
Response(code, body) == [t |-> "Response", status_code |-> code, text |-> body]

\* str(n) for n >= 0, as the f-strings of the paths write a build id
Digits == <<"0", "1", "2", "3", "4", "5", "6", "7", "8", "9">>
RECURSIVE IntStr(_)
IntStr(n) == IF n < 10 THEN <<Digits[n + 1]>> ELSE IntStr(n \div 10) \o <<Digits[(n % 10) + 1]>>

\* largest build id the server knows
MaxBuildId == 2
BuildIds == 1 .. MaxBuildId
\* the id lists of a builds document: no, one or two builds, in any order
BuildIdLists ==
    {<<>>} \cup {<<a>> : a \in BuildIds}
           \cup {p \in BuildIds \X BuildIds : p[1] /= p[2]}
RUNNING == <<"r", "u", "n", "n", "i", "n", "g">>
FINISHED == <<"f", "i", "n", "i", "s", "h", "e", "d">>
BuildStates == {RUNNING, FINISHED}

\* the documents of the server as the code reads them: {'build': [{'id': n}, ..]}
\* (subscripted with 'build' and 'id') and {'id': n, 'state': s}
BuildRef(n) == PyDict(Dict1("id", PyInt(n)))
BuildsDoc(ids) == PyDict(Dict1("build", PyList([i \in 1 .. Len(ids) |-> BuildRef(ids[i])])))
DetailsDoc(n, st) == PyDict([k \in {"id", "state"} |-> IF k = "id" THEN PyInt(n) ELSE PyStr(st)])

\* their JSON texts
RefText(n) == <<"{", "\"", "i", "d", "\"", ":">> \o IntStr(n) \o <<"}">>
RECURSIVE JoinRefs(_)
JoinRefs(ids) ==
    IF ids = <<>> THEN <<>>
    ELSE IF Len(ids) = 1 THEN RefText(ids[1])
    ELSE RefText(ids[1]) \o <<",">> \o JoinRefs(Tail(ids))
BuildsText(ids) == <<"{", "\"", "b", "u", "i", "l", "d", "\"", ":", "[">> \o JoinRefs(ids) \o <<"]", "}">>
DetailsText(n, st) == <<"{", "\"", "i", "d", "\"", ":">> \o IntStr(n) \o <<",", "\"", "s", "t", "a", "t", "e", "\"", ":", "\"">> \o st \o <<"\"", "}">>

BuildsTexts == {BuildsText(ids) : ids \in BuildIdLists}
DetailsTexts == {DetailsText(n, st) : n \in BuildIds, st \in BuildStates}

\* Response.json(): the decoded document, or a raised JSONDecodeError
JsonLoads(body) ==
    CASE body = <<"{", "}">> -> [ok |-> TRUE, value |-> PyDict(EmptyDict)]
      [] body = <<"[", "]">> -> [ok |-> TRUE, value |-> PyList(<<>>)]
      [] body \in BuildsTexts ->
            [ok |-> TRUE,
             value |-> BuildsDoc(CHOOSE ids \in BuildIdLists : BuildsText(ids) = body)]
      [] body \in DetailsTexts ->
            LET b == CHOOSE b \in BuildIds \X BuildStates : DetailsText(b[1], b[2]) = body
            IN  [ok |-> TRUE, value |-> DetailsDoc(b[1], b[2])]
      [] OTHER -> [ok |-> FALSE, value |-> PyNone]

\* outcomes of Call and of a whole call
NoResult == [kind |-> "none"]
Returned(v) == [kind |-> "returned", value |-> v]
Raised(e) == [kind |-> "raised", error |-> e]

\* ValueError('TeamCity server is not set.')
ServerNotSet == [type |-> "ValueError", what |-> "ServerNotSet"]
\* ValueError('You are not logged in to TeamCity, POST method is not supported.')
NotLoggedIn == [type |-> "ValueError", what |-> "NotLoggedIn"]
\* ValueError(f'No retries left, failed to {method.lower()} request to TeamCity: {return_code}')
NoRetriesLeft(method, return_code) ==
    [type |-> "ValueError", what |-> "NoRetriesLeft", method |-> method, return_code |-> return_code]
\* the exception an attribute access on None raises
AttributeError == [type |-> "AttributeError", what |-> "AttributeError"]
\* the exception Response.json() raises on a malformed body
JSONDecodeError == [type |-> "JSONDecodeError", what |-> "JSONDecodeError"]

\* the exceptions a subscript raises
KeyError == [type |-> "KeyError", what |-> "KeyError"]
TypeError == [type |-> "TypeError", what |-> "TypeError"]

\* v[k] for a str key k: the value of a dict that has the key, KeyError of a
\* dict that has not, TypeError of a list
GetItem(v, k) ==
    IF v.t = "dict"
    THEN IF k \in DOMAIN v.d THEN Returned(v.d[k]) ELSE Raised(KeyError)
    ELSE Raised(TypeError)

(***************************************************************************)
(* Bounds and the inputs of the calls                                      *)
(***************************************************************************)
\* largest retries argument tried (the default of the code is 3)
MaxRetries == 2
\* calls made on one client
MaxCalls == 2

RetryValues == (-1) .. MaxRetries

\* what the transport can do with one request: raise, or answer
TransportException == [t |-> "Exception"]
StatusCodes == {200, 404, 503}
Bodies == {<<"{", "}">>, <<"[">>}
TransportOutcomes ==
    {TransportException}
    \cup {Response(200, b) : b \in Bodies}
    \cup {Response(c, <<>>) : c \in StatusCodes \ {200}}

\* the extra_headers arguments tried: None, or a dict of the caller
ExtraHeaders ==
    { PyNone,
      PyDict(DictUpdate(Dict1("Accept", TEXT_XML), Dict1("Content-Type", TEXT_PLAIN))),
      PyDict(Dict1("Authorization", BASIC_ZZZ)) }

Paths == {BUILDS}

\* the public request methods and the HTTP method each passes to request_base
EntryPoints ==
    { [wrapper |-> "post_request", method |-> "POST"],
      [wrapper |-> "get_request", method |-> "GET"],
      [wrapper |-> "get_string_request", method |-> "GET"],
      [wrapper |-> "get_file_request", method |-> "GET"],
      [wrapper |-> "request_base", method |-> "GET"],
      [wrapper |-> "request_base", method |-> "POST"] }

(***************************************************************************)
(* State                                                                   *)
(***************************************************************************)
VARIABLES
    args,                   \* the arguments the constructor was called with
    env,                    \* os.environ when the constructor ran
    server, tokens, user, password, guest,      \* self.server .. self.guest
    authentication_method, base_url, header,    \* set from check_auth_method()
    initial_header,         \* the header check_auth_method returned (history)
    pc,                     \* "no_client", "idle" (no call running), "loop" (in request_base's while)
    call,                   \* the running or last call: entry point, arguments as passed
    caller_extra,           \* the caller's extra_headers object as it is now
    url, retries, response, session,            \* locals of request_base
    base_result,            \* what request_base returned or raised in the last call
    result,                 \* what the last call returned or raised to its caller
    outcomes,               \* what the transport did at each dispatch of this call (history)
    sent,                   \* the last request handed to the transport (history)
    session_log,            \* <<call number, session>> of every dispatch (history)
    sessions_created,       \* requests.Session() objects created so far
    calls,                  \* calls started so far
    op                      \* the running or last build operation: arguments, position, locals

config_vars == <<args, env, server, tokens, user, password, guest, authentication_method, base_url, initial_header>>
vars == <<args, env, server, tokens, user, password, guest, authentication_method, base_url, header,
          initial_header, pc, call, caller_extra, url, retries, response, session, base_result, result,
          outcomes,
          sent, session_log, sessions_created, calls, op>>

NoCall == [wrapper |-> "none"]
NoRequest == [t |-> "None"]
NoOp == [name |-> "none", at |-> "none"]

(***************************************************************************)
(* TeamCity.__init__                                                       *)
(***************************************************************************)
\* the state TeamCity(a.server, a.tokens, a.user, a.password, a.guest) leaves
\* when os.environ is e
Construct(a, e) ==
    LET srv == PyOr(a.server, EnvGet(e, "TEAMCITY_SERVER", PyNone))
        tok == PyOr(a.tokens, EnvGet(e, "TEAMCITY_TOKENS", PyNone))
        usr == PyOr(a.user, EnvGet(e, "TEAMCITY_USER", PyNone))
        pwd == PyOr(a.password, EnvGet(e, "TEAMCITY_PASSWORD", PyNone))
        gst == PyOr(a.guest, EnvGet(e, "TEAMCITY_GUEST", PyBool(FALSE)))
    IN  /\ args = a
        /\ env = e
        /\ call = NoCall
        /\ caller_extra = PyNone
        /\ url = PyNone
        /\ retries = 0
        /\ response = PyNone
        /\ session = 0
        /\ outcomes = <<>>
        /\ sent = NoRequest
        /\ session_log = {}
        /\ sessions_created = 0
        /\ calls = 0
        /\ op = NoOp
        /\ IF ~ServerIsSet(srv)
           THEN \* process_server_address raised: no object was made
                /\ pc = "no_client"
                /\ result = Raised(ServerNotSet)
                /\ base_result = NoResult
                /\ server = PyNone /\ tokens = PyNone /\ user = PyNone
                /\ password = PyNone /\ guest = PyNone
                /\ authentication_method = "none"
                /\ base_url = PyNone
                /\ header = EmptyDict
                /\ initial_header = EmptyDict
           ELSE LET addr == process_server_address(srv.s)
                    auth == check_auth_method(addr, tok, usr, pwd, gst)
                IN  /\ pc = "idle"
                    /\ result = NoResult
                    /\ base_result = NoResult
                    /\ server = PyStr(addr)
                    /\ tokens = tok /\ user = usr /\ password = pwd /\ guest = gst
                    /\ authentication_method = auth.authentication_method
                    /\ base_url = PyStr(auth.base_url)
                    /\ header = auth.header
                    /\ initial_header = auth.header

Init == \E a \in ExecArgs, e \in ExecEnvs : Construct(a, e)

InitAuth == \E a \in AuthArgs, e \in AuthEnvs : Construct(a, e)

(***************************************************************************)
(* TeamCity.post_request, get_request, get_string_request,                 *)
(* get_file_request: what each does before and after request_base          *)
(***************************************************************************)
\* the header each public method puts into extra_headers
WrapperHeaders(w) ==
    CASE w = "post_request" -> Dict1("Content-Type", APPLICATION_JSON)
      [] w = "get_request" -> Dict1("Accept", APPLICATION_JSON)
      [] w = "get_string_request" -> Dict1("Accept", TEXT_PLAIN)
      [] w = "get_file_request" -> Dict1("Accept", APPLICATION_JSON)

\* the extra_headers object handed to request_base: the public methods make
\* a dict when given None and update the dict (the caller's own, when given
\* one) with their header; a direct call hands over what it was given
WrapperExtra(w, extra) ==
    IF w = "request_base"
    THEN extra
    ELSE PyDict(DictUpdate(IF extra = PyNone THEN EmptyDict ELSE extra.d, WrapperHeaders(w)))

\* what the public method makes of the value request_base returned:
\* .json() in get_request, .text in get_string_request and get_file_request,
\* the value itself in post_request (None has neither attribute)
Decode(w, resp) ==
    CASE w \in {"get_request", "get_string_request", "get_file_request"} /\ resp = PyNone ->
            Raised(AttributeError)
      [] w = "get_request" /\ resp /= PyNone ->
            IF JsonLoads(resp.text).ok THEN Returned(JsonLoads(resp.text).value) ELSE Raised(JSONDecodeError)
      [] w \in {"get_string_request", "get_file_request"} /\ resp /= PyNone -> Returned(PyStr(resp.text))
      [] OTHER -> Returned(resp)

(***************************************************************************)
(* TeamCity.request_base                                                   *)
(*                                                                         *)
(* data, json and timeout are handed to session.request unchanged and are  *)
(* read nowhere else; they are left out.  The last branch of the try       *)
(* statement (lines 122-124, 'Unknown authentication method') cannot be    *)
(* taken: check_auth_method returns one of the four members of AuthMethod  *)
(* and nothing assigns authentication_method afterwards.                   *)
(***************************************************************************)
\* mutant of MergeHeaders: the defaults are laid over the caller's headers
MergeHeaders_DefaultsWin(h, extra) == DictUpdate(IF extra = PyNone THEN EmptyDict ELSE extra.d, h)

\* lines 105-107: headers is self.header itself, updated with extra_headers
MergeHeaders(h, extra) == DictUpdate(h, IF extra = PyNone THEN EmptyDict ELSE extra.d)

\* mutant of NewSession: the session made first is used by every call
NewSession_Shared(n) == 1

\* line 108: session = requests.Session(), n sessions having been made before
NewSession(n) == n + 1

\* mutant of LoopGuard: one pass too many
LoopGuard_Inclusive(r) == r >= 0

\* line 112: while retries > 0
LoopGuard(r) == r > 0

\* mutant of ResponseAfterTry: a raising attempt forgets the earlier response
ResponseAfterTry_Reset(prev, o) == IF o = TransportException THEN PyNone ELSE o

\* lines 111-126: response after the try statement, `prev` being its value
\* before: session.request answered `o` and it was assigned, or raised and
\* the except clause left response as it was
ResponseAfterTry(prev, o) == IF o = TransportException THEN prev ELSE o

\* mutant of IsFailure: the status test is inverted
IsFailure_Inverted(resp) == resp = PyNone \/ resp.status_code = 200

\* mutant of IsFailure: a 200 response with an undecodable body is retried
IsFailure_OrMalformed(resp) == resp = PyNone \/ resp.status_code /= 200 \/ ~JsonLoads(resp.text).ok

\* mutant of IsFailure: the missing response is not tested for
IsFailure_StatusOnly(resp) == resp /= PyNone /\ resp.status_code /= 200

\* line 129: response is None or response.status_code != 200
IsFailure(resp) == resp = PyNone \/ resp.status_code /= 200

\* lines 130 and 137: response.status_code if response is not None else 'NA'
ReturnCode(resp) == IF resp /= PyNone THEN PyInt(resp.status_code) ELSE NA

\* mutant of Decrement: the counter is left as it is
Decrement_Forgotten(r) == r

\* line 135: retries -= 1
Decrement(r) == r - 1

\* method.lower()
Lower(m) == CASE m = "GET" -> "get" [] m = "POST" -> "post"

\* the auth argument of session.request: given under USER only
AuthArgument == IF authentication_method = "USER"
                THEN [t |-> "tuple", user |-> user, password |-> password]
                ELSE PyNone

\* request_base is left: its locals are gone
PopFrame ==
    /\ pc' = "idle"
    /\ url' = PyNone
    /\ retries' = 0
    /\ response' = PyNone
    /\ session' = 0

\* lines 129-135 for the response variable as it is after the try statement
AfterTry(resp) ==
    IF IsFailure(resp)
    THEN /\ response' = resp
         /\ retries' = Decrement(retries)
         /\ UNCHANGED <<pc, url, session, base_result, result>>
    ELSE /\ base_result' = Returned(resp)
         /\ result' = Decode(call.wrapper, resp)
         /\ PopFrame

\* A public method or request_base is entered and runs up to the while loop:
\* lines 142-143 (149, 155, 161) of the public method, lines 105-111
Enter(ep, extra, r, path) ==
    /\ LET passed == WrapperExtra(ep.wrapper, extra)
       IN  /\ call' = [wrapper |-> ep.wrapper, method |-> ep.method, path |-> path,
                       retries |-> r, extra_headers |-> extra]
           /\ caller_extra' = IF extra = PyNone THEN PyNone ELSE passed
           /\ header' = MergeHeaders(header, passed)
    /\ url' = PyStr(base_url.s \o SLASH \o path)
    /\ session' = NewSession(sessions_created)
    /\ sessions_created' = sessions_created + 1
    /\ response' = PyNone
    /\ retries' = r
    /\ pc' = "loop"
    /\ base_result' = NoResult
    /\ result' = NoResult
    /\ outcomes' = <<>>
    /\ sent' = NoRequest
    /\ calls' = calls + 1
    /\ UNCHANGED <<config_vars, session_log>>

\* A call made by the user of the client
Call(ep, extra, r, path) ==
    /\ pc = "idle"
    /\ calls < MaxCalls
    /\ Enter(ep, extra, r, path)
    /\ UNCHANGED op

\* a request a build operation puts on the wire is noted in its record
Wire(o) == IF o.at \in {"none", "done"}
           THEN o
           ELSE [o EXCEPT !.wire = Append(@, <<call.method, call.path>>)]

\* One pass of the loop under TOKENS, GUEST or USER: session.request is
\* called (lines 114-118) and raises or answers `o`; then lines 126-135
Dispatch(o) ==
    /\ pc = "loop"
    /\ LoopGuard(retries)
    /\ authentication_method \in {"TOKENS", "GUEST", "USER"}
    /\ sent' = [t |-> "Request", method |-> call.method, url |-> url, headers |-> header,
                auth |-> AuthArgument, session |-> session]
    /\ outcomes' = Append(outcomes, o)
    /\ session_log' = session_log \cup {<<calls, session>>}
    /\ AfterTry(ResponseAfterTry(response, o))
    /\ op' = Wire(op)
    /\ UNCHANGED <<config_vars, header, call, caller_extra, sessions_created, calls>>

\* One pass of the loop under LOGGED_IN: lines 119-121 raise ValueError inside
\* the try statement, line 126 catches it; then lines 129-135
DispatchNotLoggedIn ==
    /\ pc = "loop"
    /\ LoopGuard(retries)
    /\ authentication_method = "LOGGED_IN"
    /\ AfterTry(response)
    /\ UNCHANGED <<config_vars, header, call, caller_extra, sessions_created, calls,
                   sent, outcomes, session_log, op>>

\* The else clause of the loop (lines 136-139): no retries left
Exhausted ==
    /\ pc = "loop"
    /\ ~LoopGuard(retries)
    /\ base_result' = Raised(NoRetriesLeft(Lower(call.method), ReturnCode(response)))
    /\ result' = base_result'
    /\ PopFrame
    /\ UNCHANGED <<config_vars, header, call, caller_extra, sessions_created, calls,
                   sent, outcomes, session_log, op>>

Next ==
    \/ \E ep \in EntryPoints, extra \in ExtraHeaders, r \in RetryValues, path \in Paths :
          Call(ep, extra, r, path)
    \/ \E o \in TransportOutcomes : Dispatch(o)
    \/ DispatchNotLoggedIn
    \/ Exhausted

Spec == Init /\ [][Next]_vars

\* Every entry point and every retries value, no caller headers
NextRetry ==
    \/ \E ep \in EntryPoints, r \in RetryValues, path \in Paths :
          Call(ep, PyNone, r, path)
    \/ \E o \in TransportOutcomes : Dispatch(o)
    \/ DispatchNotLoggedIn
    \/ Exhausted

\* request_base runs to its end: the interpreter goes on to the next pass of
\* the loop, and each transport call returns or raises
SpecLive ==
    /\ Init
    /\ [][NextRetry]_vars
    /\ WF_vars(\E o \in TransportOutcomes : Dispatch(o))
    /\ WF_vars(DispatchNotLoggedIn)
    /\ WF_vars(Exhausted)

\* Every configuration, each client making plain request_base calls
NextAuth ==
    \/ \E path \in Paths :
          Call([wrapper |-> "request_base", method |-> "GET"], PyNone, 1, path)
    \/ \E o \in TransportOutcomes : Dispatch(o)
    \/ DispatchNotLoggedIn
    \/ Exhausted

SpecAuth == InitAuth /\ [][NextAuth]_vars

\* Every server address, each client making plain request_base calls
InitAddr == \E a \in AddrArgs, e \in ExecEnvs : Construct(a, e)

SpecAddr == InitAddr /\ [][NextAuth]_vars

(***************************************************************************)
(* TeamCity.cancel_build, get_builds_by_since_build, get_custom_builds and *)
(* get_build_details: each request they make runs through get_request or  *)
(* post_request above, with the default retries                            *)
(***************************************************************************)
\* retries=3 in the signatures of the public request methods
DefaultRetries == 3

GET_REQUEST == [wrapper |-> "get_request", method |-> "GET"]
POST_REQUEST == [wrapper |-> "post_request", method |-> "POST"]

\* f'buildQueue?locator=id:{build_id}'
QueuePath(n) == <<"b", "u", "i", "l", "d", "Q", "u", "e", "u", "e", "?", "l", "o", "c", "a", "t", "o", "r", "=", "i", "d", ":">> \o IntStr(n)
\* f'buildQueue/id:{build_id}'
QueueItemPath(n) == <<"b", "u", "i", "l", "d", "Q", "u", "e", "u", "e", "/", "i", "d", ":">> \o IntStr(n)
\* f'builds/id:{build_id}'
BuildPath(n) == <<"b", "u", "i", "l", "d", "s", "/", "i", "d", ":">> \o IntStr(n)
\* get_custom_builds(default=True): f'builds?locator=count:{100 if count == 100000 else count}'
DefaultBuildsPath == <<"b", "u", "i", "l", "d", "s", "?", "l", "o", "c", "a", "t", "o", "r", "=", "c", "o", "u", "n", "t", ":", "1", "0", "0">>

\* what the server can do with a request of a build operation
BuildOutcomes ==
    {TransportException, Response(404, <<>>)}
    \cup {Response(200, b) : b \in Bodies \cup BuildsTexts \cup DetailsTexts}

\* the arguments tried; each client object runs one operation
TokenArgs == [server |-> PyStr(XCOM), tokens |-> PyStr(ABC), user |-> PyNone,
              password |-> PyNone, guest |-> PyBool(FALSE)]
SinceValues == 1 .. MaxBuildId
Counts == 1 .. MaxBuildId

request_vars == <<header, pc, call, caller_extra, url, retries, response, session, base_result,
                  result, outcomes, sent, session_log, sessions_created, calls>>

\* the frame of an operation as it is entered
StartOp(name, arg, count) ==
    [name |-> name, at |-> "start", arg |-> arg, count |-> count, latest_build_id |-> 0,
     build_id |-> arg, result |-> <<>>, wire |-> <<>>, fetched |-> 0, returned |-> NoResult]

\* the operation returns or raises `r`, its frame being `o`
Finish(o, r) ==
    /\ op' = [o EXCEPT !.at = "done", !.returned = r]
    /\ UNCHANGED <<config_vars, request_vars>>

\* get_build_details (lines 263-271) once its get_request has ended: the
\* document, or dict() when get_request raised
BuildDetails == IF result.kind = "raised" THEN PyDict(EmptyDict) ELSE result.value

\* self.get_request(url)['build'] once get_request has ended
BuildList == IF result.kind = "raised" THEN result ELSE GetItem(result.value, "build")

\* d.get(k, default) on a dict
DictGet(d, k, default) == IF k \in DOMAIN d.d THEN d.d[k] ELSE default

\* sorted(builds, key=lambda x: x['id'], reverse=True)
RECURSIVE SortedByIdDesc(_)
SortedByIdDesc(l) ==
    IF l = <<>> THEN <<>>
    ELSE LET i == CHOOSE i \in 1 .. Len(l) :
                     \A j \in 1 .. Len(l) :
                        \/ l[j].d["id"].i < l[i].d["id"].i
                        \/ (l[j].d["id"].i = l[i].d["id"].i /\ j >= i)
             rest == [k \in 1 .. Len(l) - 1 |-> IF k < i THEN l[k] ELSE l[k + 1]]
         IN  <<l[i]>> \o SortedByIdDesc(rest)

\* mutant of IsRunning: every build that is not queued is taken as running
IsRunning_Always(d) == TRUE

\* line 481: self.get_build_details(build_id).get('state', '') == 'running'
IsRunning(d) == DictGet(d, "state", PyStr(<<>>)) = PyStr(RUNNING)

\* cancel_build is called: line 476 and the get_request of line 477
cancel_build(build_id) ==
    /\ pc = "idle"
    /\ op.at = "none"
    /\ Enter(GET_REQUEST, PyNone, DefaultRetries, QueuePath(build_id))
    /\ op' = [StartOp("cancel_build", build_id, 0) EXCEPT !.at = "queue"]

\* line 477 once the queue lookup has ended, then line 478 or line 481 up to
\* the request it makes
cancel_build_queue ==
    /\ pc = "idle"
    /\ op.name = "cancel_build" /\ op.at = "queue"
    /\ IF BuildList.kind = "raised"
       THEN Finish(op, BuildList)
       ELSE IF Len(BuildList.value.l) > 0
       THEN /\ Enter(POST_REQUEST, PyNone, DefaultRetries, QueueItemPath(op.arg))
            /\ op' = [op EXCEPT !.at = "post"]
       ELSE /\ Enter(GET_REQUEST, PyNone, DefaultRetries, BuildPath(op.arg))
            /\ op' = [op EXCEPT !.at = "details", !.fetched = @ + 1]

\* line 481 once get_build_details has ended, then line 482 up to its
\* request, or lines 486-487
cancel_build_details ==
    /\ pc = "idle"
    /\ op.name = "cancel_build" /\ op.at = "details"
    /\ IF BuildDetails.t /= "dict"
       THEN Finish(op, Raised(AttributeError))
       ELSE IF IsRunning(BuildDetails)
       THEN /\ Enter(POST_REQUEST, PyNone, DefaultRetries, BuildPath(op.arg))
            /\ op' = [op EXCEPT !.at = "post"]
       ELSE Finish(op, Returned(PyBool(FALSE)))

\* lines 478 and 482: what post_request returned or raised is handed on
cancel_build_post ==
    /\ pc = "idle"
    /\ op.name = "cancel_build" /\ op.at = "post"
    /\ Finish(op, result)

\* mutant of InRange: one id past the latest build
InRange_Inclusive(b, latest) == b <= latest + 1

\* line 204: build_id in range(since_build_id, latest_build_id + 1)
InRange(b, latest) == b < latest + 1

\* get_builds_by_since_build is called with the defaults of build_type_id
\* and details: line 194 up to the get_request of get_custom_builds (line 228)
get_builds_by_since_build(since_build_id, count) ==
    /\ pc = "idle"
    /\ op.at = "none"
    /\ Enter(GET_REQUEST, PyNone, DefaultRetries, DefaultBuildsPath)
    /\ op' = [StartOp("get_builds_by_since_build", since_build_id, count) EXCEPT !.at = "latest"]

\* lines 228-229 and 194-204 once the builds request has ended, up to the
\* first get_build_details
since_build_latest ==
    /\ pc = "idle"
    /\ op.name = "get_builds_by_since_build" /\ op.at = "latest"
    /\ IF BuildList.kind = "raised"
       THEN Finish(op, BuildList)
       ELSE LET default_builds == SortedByIdDesc(BuildList.value.l)
                latest_build_id == IF Len(default_builds) > 0 THEN default_builds[1].d["id"].i ELSE 0
                frame == [op EXCEPT !.latest_build_id = latest_build_id]
            IN  IF op.arg > latest_build_id \/ ~InRange(op.arg, latest_build_id)
                THEN Finish(frame, Returned(PyList(<<>>)))
                ELSE /\ Enter(GET_REQUEST, PyNone, DefaultRetries, BuildPath(op.arg))
                     /\ op' = [frame EXCEPT !.at = "details", !.build_id = op.arg, !.fetched = @ + 1]

\* lines 205-216 once get_build_details has ended: the build is kept or
\* skipped, and the loop ends or goes on to the next id
since_build_details ==
    /\ pc = "idle"
    /\ op.name = "get_builds_by_since_build" /\ op.at = "details"
    /\ LET single_build == BuildDetails
           id == IF single_build.t = "dict" /\ DOMAIN single_build.d = {}
                 THEN Returned(PyNone)
                 ELSE GetItem(single_build, "id")
       IN  IF id.kind = "raised"
           THEN Finish(op, id)
           ELSE LET kept == IF id.value = PyInt(op.build_id)
                            THEN Append(op.result, single_build)
                            ELSE op.result
                    frame == [op EXCEPT !.result = kept]
                IN  IF Len(kept) >= op.count \/ ~InRange(op.build_id + 1, op.latest_build_id)
                    THEN Finish(frame, Returned(PyList(kept)))
                    ELSE /\ Enter(GET_REQUEST, PyNone, DefaultRetries, BuildPath(op.build_id + 1))
                         /\ op' = [frame EXCEPT !.build_id = @ + 1, !.fetched = @ + 1]

InitBuilds == Construct(TokenArgs, EmptyEnv)

NextBuilds ==
    \/ \E b \in BuildIds : cancel_build(b)
    \/ cancel_build_queue
    \/ cancel_build_details
    \/ cancel_build_post
    \/ \E s \in SinceValues, c \in Counts : get_builds_by_since_build(s, c)
    \/ since_build_latest
    \/ since_build_details
    \/ \E o \in BuildOutcomes : Dispatch(o)
    \/ Exhausted

\* an operation that has begun goes on: the interpreter runs its next
\* statement and each transport call returns or raises
SpecBuilds ==
    /\ InitBuilds
    /\ [][NextBuilds]_vars
    /\ WF_vars(cancel_build_queue)
    /\ WF_vars(cancel_build_details)
    /\ WF_vars(cancel_build_post)
    /\ WF_vars(since_build_latest)
    /\ WF_vars(since_build_details)
    /\ WF_vars(\E o \in BuildOutcomes : Dispatch(o))
    /\ WF_vars(Exhausted)

(***************************************************************************)
(* Properties                                                              *)
(***************************************************************************)
\* vocabulary of the properties, stated on the history variables
IsResponse(o) == o /= TransportException
Is200(o) == IsResponse(o) /\ o.status_code = 200
NonEmptyStr(v) == v.t = "str" /\ Len(v.s) > 0
FlagSet(v) == v = PyBool(TRUE) \/ NonEmptyStr(v)
Dispatching == {"TOKENS", "USER", "GUEST"}
InCall == call /= NoCall
CallDone == InCall /\ pc = "idle"
\* the status of the last response the transport gave in this call, or NA
LastReceived ==
    LET got == {i \in 1..Len(outcomes) : IsResponse(outcomes[i])}
    IN  IF got = {} THEN NA
        ELSE PyInt(outcomes[CHOOSE i \in got : \A j \in got : j <= i].status_code)

\* C1: the strategy is chosen by fixed precedence from the credential fields
\* of the client: Token when the token is non-empty, whatever the other
\* fields hold; else UserPassword when user and password are both non-empty;
\* else Guest when the guest flag is set; else LOGGED_IN.
C1_AuthPrecedence ==
    pc /= "no_client" =>
        /\ authentication_method \in AuthMethod
        /\ NonEmptyStr(tokens) => authentication_method = "TOKENS"
        /\ (~NonEmptyStr(tokens) /\ NonEmptyStr(user) /\ NonEmptyStr(password))
              => authentication_method = "USER"
        /\ (~NonEmptyStr(tokens) /\ ~(NonEmptyStr(user) /\ NonEmptyStr(password)) /\ FlagSet(guest))
              => authentication_method = "GUEST"
        /\ (~NonEmptyStr(tokens) /\ ~(NonEmptyStr(user) /\ NonEmptyStr(password)) /\ ~FlagSet(guest))
              => authentication_method = "LOGGED_IN"

\* C1 witness: a client with token, user, password and guest all given is a
\* Token client, and has made a request
C1_Witness ==
    /\ NonEmptyStr(tokens) /\ NonEmptyStr(user) /\ NonEmptyStr(password) /\ guest = PyBool(TRUE)
    /\ authentication_method = "TOKENS"
    /\ sent /= NoRequest

\* C2: under LOGGED_IN a POST with a positive retry budget fails at once
\* with the not-logged-in error: nothing is dispatched, the retry budget is
\* not consumed, and the error is not the no-retries-left one.
C2_UnauthPostFailsFast ==
    (InCall /\ authentication_method = "LOGGED_IN" /\ call.method = "POST" /\ call.retries >= 1) =>
        /\ outcomes = <<>>
        /\ pc = "loop" => retries = call.retries
        /\ pc = "idle" => base_result = Raised(NotLoggedIn)

\* C3: under a dispatching strategy, when the transport answers every
\* attempt with a non-200 status and retries = n >= 1, request_base
\* dispatches exactly n times and then raises the no-retries-left error
\* with the status of the last answer; it returns no response.
C3_RetryExhaustion ==
    (/\ InCall /\ authentication_method \in Dispatching /\ call.retries >= 1
     /\ \A i \in 1..Len(outcomes) : IsResponse(outcomes[i]) /\ ~Is200(outcomes[i])) =>
        /\ Len(outcomes) <= call.retries
        /\ pc = "loop" => retries = call.retries - Len(outcomes)
        /\ pc = "idle" =>
              /\ Len(outcomes) = call.retries
              /\ base_result = Raised(NoRetriesLeft(Lower(call.method),
                                                    PyInt(outcomes[Len(outcomes)].status_code)))

\* C3 witness: retries = MaxRetries, 503 every time, the error carries 503
C3_Witness ==
    /\ CallDone /\ call.retries = MaxRetries
    /\ outcomes = [i \in 1..MaxRetries |-> Response(503, <<>>)]
    /\ base_result.kind = "raised"
    /\ base_result.error.return_code = PyInt(503)

\* C4: a 200 response ends the call: it is the last dispatch of the call,
\* came within the retry budget, and is what request_base returns; so
\* with the first 200 at attempt k the call makes exactly k dispatches.
C4_RetryShortCircuit ==
    InCall =>
        \A k \in 1..Len(outcomes) :
            Is200(outcomes[k]) =>
                /\ k = Len(outcomes)
                /\ k <= call.retries
                /\ pc = "idle"
                /\ base_result = Returned(outcomes[k])

\* C4 witness: a failure, then 200 at the second attempt, returned
C4_Witness ==
    /\ CallDone /\ Len(outcomes) = 2
    /\ outcomes[1] = Response(503, <<>>) /\ Is200(outcomes[2])
    /\ base_result = Returned(outcomes[2])

\* C5: the no-retries-left error carries the status of the last response
\* received in this call, and 'NA' exactly when no attempt of this call
\* received a response.
C5_LastObservedStatus ==
    (CallDone /\ base_result.kind = "raised" /\ base_result.error.what = "NoRetriesLeft") =>
        /\ base_result.error.return_code = LastReceived
        /\ (base_result.error.return_code = NA)
              <=> (\A i \in 1..Len(outcomes) : ~IsResponse(outcomes[i]))

\* C5 witness: a 503 and then a transport exception: the error carries 503
C5_Witness ==
    /\ CallDone
    /\ outcomes = <<Response(503, <<>>), TransportException>>
    /\ base_result.kind = "raised"
    /\ base_result.error.return_code = PyInt(503)

\* the extra_headers mapping the caller gave to this call, as it was given
CallerHeaders == IF call.extra_headers = PyNone THEN EmptyDict ELSE call.extra_headers.d
\* the header a public method sets itself: its key and its value
OwnKey(w) == CASE w = "post_request" -> "Content-Type"
               [] w \in {"get_request", "get_string_request", "get_file_request"} -> "Accept"
               [] OTHER -> "(none)"
OwnValue(w) == IF w = "get_string_request" THEN TEXT_PLAIN ELSE APPLICATION_JSON

\* C6: the default header mapping is immutable: after every call self.header
\* is the mapping check_auth_method returned at construction, and a request
\* carries only the default headers and the extra headers of its own call.
C6_HeaderImmutable ==
    /\ CallDone => header = initial_header
    /\ sent /= NoRequest =>
          DOMAIN sent.headers \subseteq
              (DOMAIN initial_header) \cup (DOMAIN CallerHeaders) \cup {OwnKey(call.wrapper)}

\* C7 as stated: every header the caller supplied is sent with the caller's
\* value, through request_base and through the public methods alike.
C7_CallerWins ==
    sent /= NoRequest =>
        \A k \in DOMAIN CallerHeaders : sent.headers[k] = CallerHeaders[k]

\* C7 as amended: every header the caller supplied is sent with the caller's
\* value, except the one header the public method sets itself (Content-Type
\* in post_request, Accept in the get methods), which is sent with the
\* method's value; through request_base the caller wins for every key.
C7_CallerWinsExceptOwnKey ==
    sent /= NoRequest =>
        \A k \in DOMAIN CallerHeaders :
            sent.headers[k] = IF k = OwnKey(call.wrapper) THEN OwnValue(call.wrapper)
                                                         ELSE CallerHeaders[k]

\* C7 witness: a Token client (default Authorization: Bearer abc) sent the
\* caller's Authorization through get_request
C7_Witness ==
    /\ sent /= NoRequest
    /\ authentication_method = "TOKENS"
    /\ call.wrapper = "get_request"
    /\ "Authorization" \in DOMAIN CallerHeaders
    /\ initial_header["Authorization"] /= CallerHeaders["Authorization"]
    /\ sent.headers["Authorization"] = CallerHeaders["Authorization"]

C9_DecodeErrorNotRetried ==
    (InCall /\ call.wrapper = "get_request") =>
        \A k \in 1..Len(outcomes) :
            (Is200(outcomes[k]) /\ outcomes[k].text \notin {<<"{", "}">>, <<"[", "]">>}) =>
                /\ k = Len(outcomes)
                /\ pc = "idle"
                /\ result = Raised(JSONDecodeError)

\* C9 witness: the first attempt of a get_request with retries = 2 got a
\* malformed 200 and the call ended with the decode error
C9_Witness ==
    /\ CallDone /\ call.wrapper = "get_request" /\ call.retries = 2
    /\ outcomes = <<Response(200, <<"[">>)>>
    /\ result = Raised(JSONDecodeError)

\* C10: request_base ends by returning a response of status 200 or by
\* raising; it returns nothing else.
C10_FailsLoudly ==
    /\ CallDone => base_result.kind \in {"returned", "raised"}
    /\ base_result.kind = "returned" =>
          /\ base_result.value /= PyNone
          /\ base_result.value.t = "Response"
          /\ base_result.value.status_code = 200

\* C10 witness: a call that returned after a transport exception
C10_Witness ==
    /\ CallDone /\ base_result.kind = "returned"
    /\ Len(outcomes) = 2 /\ outcomes[1] = TransportException

\* C11 as stated: normalizing a normalized address changes nothing, for
\* every non-empty address the constructor accepts.
C11_Idempotent ==
    pc /= "no_client" => process_server_address(server.s) = server.s

\* C11 as amended: normalizing a normalized address changes nothing for
\* every non-empty address that is not '/' and does not end in '//' (one
\* trailing '/' is stripped, not all of them); 'http://x/' and 'http://x'
\* give the same address and 'x.com' gives 'https://x.com'.
C11_IdempotentOneSlash ==
    pc /= "no_client" =>
        /\ (args.server.s /= SLASH /\ ~EndsWith(args.server.s, <<"/", "/">>))
              => process_server_address(server.s) = server.s
        /\ args.server.s \in {HTTPX_SLASH, HTTP_SCHEME \o <<"x">>} => server.s = HTTP_SCHEME \o <<"x">>
        /\ args.server.s = XCOM => server.s = HTTPS_SCHEME \o XCOM

\* C11 witness: a client made from 'http://x/' holds 'http://x' and has
\* sent a request
C11_Witness ==
    /\ args.server = PyStr(HTTPX_SLASH)
    /\ server = PyStr(HTTP_SCHEME \o <<"x">>)
    /\ sent /= NoRequest

\* C12: base URL and default headers follow from the strategy: Token gives
\* {server}/app/rest and exactly the headers Accept: application/json and
\* Authorization: Bearer {token}; UserPassword gives {server}/httpAuth/app/rest
\* and no credentials in the headers (they go in the auth argument); Guest
\* gives {server}/guestAuth/app/rest; LOGGED_IN gives {server}/app/rest; and
\* every request dispatched goes to {base_url}/{path}.
C12_StrategyUrlAndHeaders ==
    pc /= "no_client" =>
        /\ authentication_method = "TOKENS" =>
              /\ base_url.s = server.s \o APP_REST
              /\ initial_header = [k \in {"Accept", "Authorization"} |->
                                      IF k = "Accept" THEN APPLICATION_JSON ELSE BEARER \o tokens.s]
        /\ authentication_method = "USER" =>
              /\ base_url.s = server.s \o HTTPAUTH_APP_REST
              /\ initial_header = [k \in {"Accept"} |-> APPLICATION_JSON]
              /\ sent /= NoRequest => (sent.auth /= PyNone /\ sent.auth.user = user
                                       /\ sent.auth.password = password)
        /\ authentication_method = "GUEST" => base_url.s = server.s \o GUESTAUTH_APP_REST
        /\ authentication_method = "LOGGED_IN" => base_url.s = server.s \o APP_REST
        /\ sent /= NoRequest => sent.url.s = base_url.s \o SLASH \o call.path

\* C12 witness: a Guest client of x.com has sent a request to
\* https://x.com/guestAuth/app/rest/builds
C12_Witness ==
    /\ authentication_method = "GUEST"
    /\ sent /= NoRequest
    /\ sent.url.s = HTTPS_SCHEME \o XCOM \o GUESTAUTH_APP_REST \o SLASH \o BUILDS

\* C13: an argument given to the constructor overrides the environment
\* variable of its field: a given non-empty value is the field's value, a
\* given empty token, user or password leaves the field empty, and guest=True
\* gives a true guest flag, whatever the environment holds.
C13_ArgumentOverridesEnvironment ==
    pc /= "no_client" =>
        /\ \A f \in {"tokens", "user", "password"} :
              args[f] /= PyNone =>
                  LET field == CASE f = "tokens" -> tokens [] f = "user" -> user [] f = "password" -> password
                  IN  IF args[f].s /= <<>> THEN field = args[f] ELSE (field = PyNone \/ field = PyStr(<<>>))
        /\ args.server /= PyNone => server = PyStr(process_server_address(args.server.s))
        /\ args.guest = PyBool(TRUE) => guest = PyBool(TRUE)

\* C14: under LOGGED_IN a GET call with a positive retry budget is dispatched
\* to {server}/app/rest/{path} like under the other strategies: it has made
\* a dispatch by the time it ends, and did not end with the NA error of a
\* call that never reached the transport.
C14_UnauthGetDispatched ==
    (CallDone /\ authentication_method = "LOGGED_IN" /\ call.method = "GET" /\ call.retries >= 1) =>
        /\ Len(outcomes) >= 1
        /\ sent /= NoRequest
        /\ sent.url.s = server.s \o APP_REST \o SLASH \o call.path

\* C15: the extra_headers mapping of the caller is never changed: during
\* and after every call it has the keys and values it was given with.
C15_CallerExtraUnchanged ==
    (InCall /\ call.extra_headers /= PyNone) => caller_extra = call.extra_headers

\* C16: request_base terminates for every retries value: each pass that
\* stays in the loop lowers the counter by exactly one, a call never makes
\* more than max(retries, 0) dispatches, a call with retries <= 0 makes none
\* and ends with the no-retries-left error carrying 'NA', and every call
\* that has entered the loop leaves it.
C16_BoundedRetry ==
    /\ [](InCall =>
            /\ Len(outcomes) <= (IF call.retries > 0 THEN call.retries ELSE 0)
            /\ pc = "loop" => retries <= call.retries
            /\ call.retries <= 0 =>
                  /\ outcomes = <<>>
                  /\ pc = "idle" => base_result = Raised(NoRetriesLeft(Lower(call.method), NA)))
    /\ [][(pc = "loop" /\ pc' = "loop") => retries' = retries - 1]_vars
    /\ (pc = "loop" ~> pc = "idle")

\* C16 witness: a call with retries = -1 has ended with the NA error, no
\* request sent
C16_Witness ==
    /\ CallDone /\ call.retries = -1
    /\ outcomes = <<>>
    /\ base_result.kind = "raised" /\ base_result.error.return_code = NA

\* the POST requests among the requests `w` an operation put on the wire
Posts(w) == {i \in 1 .. Len(w) : w[i][1] = "POST"}
IsCancel == op.name = "cancel_build"
\* get_request ended with a details document whose state is 'running'
ReportsRunning ==
    /\ result.kind = "returned"
    /\ result.value.t = "dict"
    /\ "state" \in DOMAIN result.value.d
    /\ result.value.d["state"] = PyStr(RUNNING)
\* get_request ended with a document whose 'build' list has `n` entries or more
QueueHolds(n) ==
    /\ result.kind = "returned"
    /\ result.value.t = "dict"
    /\ "build" \in DOMAIN result.value.d
    /\ Len(result.value.d["build"].l) >= n

\* C17 as stated: cancel_build puts at most one POST request on the wire
C17_AtMostOnePost == IsCancel => Cardinality(Posts(op.wire)) <= 1

\* C17: cancel_build makes at most one post_request call, whose POST requests
\* (one to DefaultRetries of them, all to one URL) are the last requests of
\* the operation; the first request is the queue lookup GET; a POST to
\* buildQueue/id:{build_id} is made only after a non-empty queue list and
\* then no build-details GET is made; a POST to builds/id:{build_id} is made
\* only after a build-details GET that reported state 'running'; when the
\* build is neither queued nor running (the failed details fetch included)
\* no POST is made and the result is False.
C17_CheckBeforeWrite ==
    /\ [](IsCancel =>
            /\ op.wire /= <<>> => op.wire[1] = <<"GET", QueuePath(op.arg)>>
            /\ Cardinality(Posts(op.wire)) <= DefaultRetries
            /\ \A i \in Posts(op.wire) :
                  /\ op.wire[i][2] \in {QueueItemPath(op.arg), BuildPath(op.arg)}
                  /\ \A j \in i .. Len(op.wire) : op.wire[j] = op.wire[i]
                  /\ op.wire[i][2] = QueueItemPath(op.arg) =>
                        \A j \in 1 .. Len(op.wire) : op.wire[j] /= <<"GET", BuildPath(op.arg)>>
                  /\ op.wire[i][2] = BuildPath(op.arg) =>
                        \E j \in 1 .. i : op.wire[j] = <<"GET", BuildPath(op.arg)>>
            /\ (op.at = "done" /\ op.returned = Returned(PyBool(FALSE))) => Posts(op.wire) = {})
    /\ [][(IsCancel /\ op.at = "queue" /\ op'.at = "post") =>
              QueueHolds(1) /\ call'.path = QueueItemPath(op.arg)]_vars
    /\ [][(IsCancel /\ op.at = "queue" /\ op'.at = "details") =>
              QueueHolds(0) /\ ~QueueHolds(1)]_vars
    /\ [][(IsCancel /\ op.at = "details" /\ op'.at = "post") =>
              ReportsRunning /\ call'.path = BuildPath(op.arg)]_vars
    /\ [][(IsCancel /\ op.at = "details" /\ op'.at = "done" /\ BuildDetails.t = "dict") =>
              /\ ~ReportsRunning
              /\ op'.returned = Returned(PyBool(FALSE))
              /\ Posts(op'.wire) = {}]_vars

\* C17 witness: a build that was not queued and reported running has been
\* cancelled with one POST after the two lookups
C17_Witness ==
    /\ IsCancel /\ op.at = "done"
    /\ op.wire = << <<"GET", QueuePath(op.arg)>>, <<"GET", BuildPath(op.arg)>>,
                    <<"POST", BuildPath(op.arg)>> >>
    /\ op.returned.kind = "returned"

IsSince == op.name = "get_builds_by_since_build"
BuildIdOf(b) == b.d["id"].i
\* get_request ended with a details document whose id is `n`
ReportsId(n) ==
    /\ result.kind = "returned"
    /\ result.value.t = "dict"
    /\ "id" \in DOMAIN result.value.d
    /\ result.value.d["id"] = PyInt(n)

\* C18: get_builds_by_since_build ends, whatever the server answers; it calls
\* get_build_details for at most latest_build_id - since_build_id + 1 ids;
\* with since_build_id > latest_build_id it returns [] and fetches no
\* details; what it returns has at most count builds, each with an id from
\* since_build_id to latest_build_id, in strictly increasing id order; an id
\* whose details fetch failed or answered with another id is skipped.
C18_BoundedScan ==
    /\ [](IsSince =>
            /\ op.fetched <= (IF op.latest_build_id >= op.arg
                              THEN op.latest_build_id - op.arg + 1 ELSE 0)
            /\ (op.at = "done" /\ op.returned.kind = "returned") =>
                  LET l == op.returned.value.l
                  IN  /\ Len(l) <= op.count
                      /\ \A i \in 1 .. Len(l) :
                            BuildIdOf(l[i]) \in op.arg .. op.latest_build_id
                      /\ \A i \in 1 .. Len(l), j \in 1 .. Len(l) :
                            i < j => BuildIdOf(l[i]) < BuildIdOf(l[j])
                      /\ op.arg > op.latest_build_id =>
                            /\ l = <<>>
                            /\ op.fetched = 0
                            /\ \A k \in 1 .. Len(op.wire) : op.wire[k][2] = DefaultBuildsPath)
    /\ [][(IsSince /\ op.at = "details" /\ pc = "idle" /\ op' /= op) =>
              op'.result = IF ReportsId(op.build_id)
                           THEN Append(op.result, result.value)
                           ELSE op.result]_vars
    /\ ((IsSince /\ op.at /= "done") ~> (op.at = "done"))

\* C18 witness: build 1 was asked for and skipped, build 2 was found, and
\* the list with build 2 alone has been returned
C18_Witness ==
    /\ IsSince /\ op.at = "done"
    /\ op.arg = 1 /\ op.latest_build_id = 2 /\ op.count = 2
    /\ op.fetched = 2
    /\ op.returned.kind = "returned"
    /\ Len(op.returned.value.l) = 1
    /\ BuildIdOf(op.returned.value.l[1]) = 2

====
